---------------------------- MODULE Spec2Model ----------------------------
(***************************************************************************)
(* State-machine model of the daily standup workflow:                      *)
(*   src/app/services/standup_service.py  (dispatch, answer, skip)         *)
(*   src/app/db/models.py                 (tables and their constraints)   *)
(*   src/app/slack/handlers.py            (pause button)                   *)
(* The repository layer (app/db/repository.py) and the time helpers        *)
(* (app/utils/timeutils.py) are not part of the source tree at hand; their *)
(* operators below follow the repository contract of the specification     *)
(* (section 4.2) and the way the service and the tests call them.          *)
(***************************************************************************)
EXTENDS Integers, Sequences, FiniteSets, TLC

\* ------------------------------------------------------------------ bounds
\* The calendar days the clock runs through: 1..MaxDay.
MaxDay == 3

\* The values of a stored current_question_index: -MaxIndex..MaxIndex.
MaxIndex == 6

\* --------------------------------------------------------------- constants
\* Column value NULL (text columns) and NULL for completed_at (a timestamp,
\* modelled by the day on which it was taken; days start at 1).
NULL == "NULL"
NoTime == 0

\* standup_service.py:28-33
QUESTIONS == <<"feeling", "yesterday", "today", "blockers">>

\* Subscribed users: one row of table users each (models.py:29-47).
\* U1 has no timezone of its own, U2 has one that is a day ahead of the
\* scheduler's at the time the dispatch job runs.
UserOrder == <<"U1", "U2">>
Users == {UserOrder[i] : i \in 1..Len(UserOrder)}
UserTimezone == [u \in Users |-> IF u = "U1" THEN NULL ELSE "Pacific/Auckland"]

\* A Slack id that names no row of table users.
UnknownSlackId == "U9"
SlackIds == Users \cup {UnknownSlackId}

\* Free-text answers a user may type.
Texts == {"a", "b"}

\* config.py:23
scheduler_timezone == "Asia/Kolkata"

\* config.py:13: the channel the deployment names, here the report channel
\* of workspace W1
slack_default_channel == "C1"

\* config.py:31: the feature flag, off unless the environment sets it
skip_notification_to_channel == FALSE

\* Table workspaces (models.py:9-20): the workspace each user belongs to
\* (users.workspace_id, models.py:35) and the report channel configured for
\* each workspace (workspaces.report_channel_id, models.py:16).
Workspaces == {"W1", "W2"}
UserWorkspace == [u \in Users |-> IF u = "U1" THEN "W1" ELSE "W2"]
report_channel_id == [w \in Workspaces |-> IF w = "W1" THEN "C1" ELSE "C2"]

VARIABLES
    calendar_day, \* the calendar day in the scheduler's timezone
    active,     \* users.active, per user
    reports,    \* committed rows of table standup_reports
    states,     \* committed rows of table standup_states
    outbox,     \* DMs sent to each user by the latest run of the dispatch job
    last,       \* the latest operation and the result it returned
    req,        \* the requests in flight, each with what it has read so far
    channel_posts, \* the posts to Slack channels attempted by the latest call
    handled,    \* what the latest Slack event handler said, called and logged
    published,  \* the report ids the message handler has had posted
    batch       \* the dispatch pass in progress: its session and position
                \* of handle_skip_today or post_report_to_channel

vars == <<calendar_day, active, reports, states, outbox, last, req,
          channel_posts, handled, published, batch>>

\* What a handler call has done: the DMs said to the sender, the service
\* operations called, and the exception text logged by its except clause
NoEvent == [bot_id |-> NULL, user |-> NULL, text |-> ""]
NoHandled == [op |-> "none", event |-> NoEvent, said |-> <<>>, calls |-> <<>>,
              logged |-> NULL]

\* No report has been handed to post_report_to_channel yet. ids: the report
\* ids handed over so far; repeated: those handed over more than once.
NoPublished == [ids |-> {}, repeated |-> {}]

\* No dispatch pass is in progress.
NoBatch == [pc |-> "idle", users |-> <<>>, position |-> 0, states |-> {}]

\* ------------------------------------------------------------ time helpers
\* get_user_date(tz): the calendar day in timezone tz.
get_user_date(tz) ==
    IF tz = scheduler_timezone THEN calendar_day ELSE calendar_day + 1

\* standup_service.py:54-55
user_date(u) ==
    LET user_tz == IF UserTimezone[u] # NULL THEN UserTimezone[u]
                   ELSE scheduler_timezone
    IN  get_user_date(user_tz)

\* --------------------------------------------------------------- rows
\* models.py:53-69; the id is the table's autoincrement key.
StandupReport(id, user_id, report_date, skipped) ==
    [id |-> id, user_id |-> user_id, report_date |-> report_date,
     feeling |-> NULL, yesterday |-> NULL, today |-> NULL, blockers |-> NULL,
     skipped |-> skipped, completed_at |-> NoTime]

\* models.py:78-89
StandupState(user_id, pending_report_date, current_question_index) ==
    [user_id |-> user_id, pending_report_date |-> pending_report_date,
     current_question_index |-> current_question_index]

\* ------------------------------------------------------- repository layer
\* A query that returns a row or None returns here the set of rows found:
\* {} for None.

\* UserRepository.get_by_slack_id
user_get_by_slack_id(slack_id) == {u \in Users : u = slack_id}

\* UserRepository.list_active: the active users, in id order
list_active ==
    SelectSeq(UserOrder, LAMBDA u : active[u])

\* StandupReportRepository.get_by_user_date
get_by_user_date(reps, user_id, report_date) ==
    {r \in reps : r.user_id = user_id /\ r.report_date = report_date}

\* StandupReportRepository.get_latest_by_user: the most recent report by
\* date, whatever its completion status
get_latest_by_user(reps, user_id) ==
    {r \in reps : /\ r.user_id = user_id
                  /\ \A q \in reps : q.user_id = user_id
                                       => q.report_date <= r.report_date}

\* As UniqueViolation, for a table without the constraint.
no_unique_constraint(reps, user_id, report_date) == FALSE

\* The constraint uq_user_date (models.py:57) refuses the insert of a second
\* row for the same user and date.
UniqueViolation(reps, user_id, report_date) ==
    get_by_user_date(reps, user_id, report_date) # {}

\* StandupReportRepository.create: the row inserted (the id is the next
\* autoincrement value; no report row is ever deleted)
report_create(reps, user_id, report_date, skipped) ==
    StandupReport(Cardinality(reps) + 1, user_id, report_date, skipped)

\* StandupReportRepository.update(id, **fields), one field
report_update(reps, id, field, value) ==
    {IF r.id = id THEN [r EXCEPT ![field] = value] ELSE r : r \in reps}

\* StandupReportRepository.mark_completed(id): completed_at = now
mark_completed(reps, id, now) ==
    {IF r.id = id THEN [r EXCEPT !.completed_at = now] ELSE r : r \in reps}

\* StandupStateRepository.get_by_user
get_by_user(sts, user_id) == {s \in sts : s.user_id = user_id}

\* StandupStateRepository.create_or_update: the user's row is created, or
\* overwritten when there is one (user_id is unique, models.py:82-85)
create_or_update(sts, user_id, pending_report_date, current_question_index) ==
    (sts \ get_by_user(sts, user_id))
        \cup {StandupState(user_id, pending_report_date, current_question_index)}

\* StandupStateRepository.delete(user_id)
state_delete(sts, user_id) == sts \ get_by_user(sts, user_id)

\* ------------------------------------------------------------- results
NoResult == [action |-> "none", message |-> "", question_index |-> -1,
             report_id |-> 0, channel |-> NULL]
ErrorResult(message) == [NoResult EXCEPT !.action = "error",
                                         !.message = message]
NextQuestion(i) == [NoResult EXCEPT !.action = "next_question",
                                    !.question_index = i]
CompleteReport(id) == [NoResult EXCEPT !.action = "complete_report",
                                       !.report_id = id]
Skipped == [NoResult EXCEPT !.action = "skipped"]
Posted(channel) == [NoResult EXCEPT !.action = "posted", !.channel = channel]

\* One post to a channel: where it went, what it was, whether Slack took it.
ChannelPost(channel, kind, delivered) ==
    [channel |-> channel, kind |-> kind, delivered |-> delivered]

Last(op, user, result) == [op |-> op, user |-> user, result |-> result]

\* ------------------------------------------------------------- requests
\* The slots of the requests handled at the same time, and a free slot.
Reqs == {"r1", "r2"}
IdleReq == [pc |-> "idle", user |-> NULL, text |-> NULL, state |-> {},
            report |-> {}, peers |-> {}, result |-> NoResult]

\* ------------------------------------------------------------- messages
\* messages.py: build_standup_start_message(), build_missed_standup_message(d)
build_standup_start_message == [kind |-> "standup_start", date |-> 0]
build_missed_standup_message(d) == [kind |-> "missed_standup", date |-> d]

\* ------------------------------------------------------------ dispatch
\* As has_report_today, counting only the completed reports.
has_completed_report_today(reps, u) ==
    \E r \in get_by_user_date(reps, u, user_date(u)) : r.completed_at # NoTime

\* As has_report_today, with the check of line 60 never taken.
never_has_report_today(reps, u) == FALSE

\* standup_service.py:57-62: the user already has a report for today
has_report_today(reps, u) == get_by_user_date(reps, u, user_date(u)) # {}

\* As missed_report_date, with the check of lines 64-69 never taken.
no_missed_report_date(reps, u) == {}

\* standup_service.py:64-69: the date of the latest report when it is
\* earlier than today, as a set ({} for None)
missed_report_date(reps, u) ==
    {r.report_date : r \in {l \in get_latest_by_user(reps, u) :
                                l.report_date < user_date(u)}}

\* As send_catch_up, with the state written for today.
send_catch_up_for_today(sts, u, missed) ==
    [states |-> create_or_update(sts, u, user_date(u), 0),
     dms |-> <<build_missed_standup_message(missed)>>]

\* As send_catch_up, with the cycle opened at the last question.
send_catch_up_at_last_question(sts, u, missed) ==
    [states |-> create_or_update(sts, u, missed, Len(QUESTIONS) - 1),
     dms |-> <<build_missed_standup_message(missed)>>]

\* standup_service.py:72-88: the catch-up DM and the state written for it
send_catch_up(sts, u, missed) ==
    [states |-> create_or_update(sts, u, missed, 0),
     dms |-> <<build_missed_standup_message(missed)>>]

\* As send_standup_start, with the cycle opened one before the first
\* question.
send_standup_start_before_first(sts, u) ==
    [states |-> create_or_update(sts, u, user_date(u), -1),
     dms |-> <<build_standup_start_message>>]

\* As send_standup_start, with the server's day for the user's.
send_standup_start_server_day(sts, u) ==
    [states |-> create_or_update(sts, u, calendar_day, 0),
     dms |-> <<build_standup_start_message>>]

\* standup_service.py:89-102: the opening DM and the state written for it
send_standup_start(sts, u) ==
    [states |-> create_or_update(sts, u, user_date(u), 0),
     dms |-> <<build_standup_start_message>>]

\* As dispatch_user, with the state row written before the send.
dispatch_user_state_before_send(reps, sts, u, send_ok) ==
    IF has_report_today(reps, u)
    THEN [states |-> sts, dms |-> <<>>]
    ELSE LET r == IF missed_report_date(reps, u) # {}
                  THEN send_catch_up(sts, u,
                           CHOOSE m \in missed_report_date(reps, u) : TRUE)
                  ELSE send_standup_start(sts, u)
         IN  IF send_ok THEN r ELSE [states |-> r.states, dms |-> <<>>]

\* standup_service.py:52-105, the loop body for one user. send_ok: whether
\* _send_dm (lines 298-315) delivers or raises. Gives the state rows the
\* session then holds and the DMs delivered to the user.
dispatch_user(reps, sts, u, send_ok) ==
    IF has_report_today(reps, u)
    THEN [states |-> sts, dms |-> <<>>]                       \* line 60-62
    ELSE IF ~send_ok
    THEN [states |-> sts, dms |-> <<>>]                       \* line 104-105
    ELSE IF missed_report_date(reps, u) # {}                  \* line 72
    THEN send_catch_up(sts, u, CHOOSE m \in missed_report_date(reps, u) : TRUE)
    ELSE send_standup_start(sts, u)

\* standup_service.py:51, the pass over the active users; failed: the users
\* to whom the send fails in this run
RECURSIVE dispatch_loop(_, _, _, _, _)
dispatch_loop(users, reps, sts, out, failed) ==
    IF users = <<>>
    THEN [states |-> sts, outbox |-> out]
    ELSE LET u == Head(users)
             r == dispatch_user(reps, sts, u, u \notin failed)
         IN  dispatch_loop(Tail(users), reps, r.states,
                           [out EXCEPT ![u] = r.dms], failed)

NoDMs == [u \in Users |-> <<>>]

\* As send_pending_standups, with the report of each pending date created
\* by the run when there is none.
send_pending_standups_precreates(failed) ==
    LET r == dispatch_loop(list_active, reports, states, NoDMs, failed)
        opened == {s \in r.states :
                     /\ r.outbox[s.user_id] # <<>>
                     /\ get_by_user_date(reports, s.user_id,
                                         s.pending_report_date) = {}}
    IN  /\ states' = r.states
        /\ outbox' = r.outbox
        /\ reports' = reports \cup
              {StandupReport(Cardinality(reports) + 1, s.user_id,
                             s.pending_report_date, FALSE) : s \in opened}
        /\ last' = Last("dispatch", NULL, NoResult)
        /\ UNCHANGED <<calendar_day, active, req, channel_posts,
                       handled, published, batch>>

\* standup_service.py:36-107
send_pending_standups(failed) ==
    LET r == dispatch_loop(list_active, reports, states, NoDMs, failed)
    IN  /\ states' = r.states                                  \* line 107
        /\ outbox' = r.outbox
        /\ last' = Last("dispatch", NULL, NoResult)
        /\ UNCHANGED <<calendar_day, active, reports, req, channel_posts,
                       handled, published, batch>>

\* The place of an active user in the pass of line 51.
position(u) == CHOOSE i \in 1..Len(list_active) : list_active[i] = u

\* standup_service.py:36-107, a run in which the write of the state row of
\* user b (create_or_update, line 84 or 98) raises. The run has one session
\* (line 36) and the handler of line 104 does not roll it back: the failed
\* flush leaves the session's transaction rolled back, so the rows written
\* for the users before b are gone with it, every query for the users after
\* b raises in turn (caught at 104, before any DM), and the commit of line
\* 107 commits nothing. commit_raises: whether that commit raises or ends
\* the failed transaction silently.
send_pending_standups_persistence_failure(b, commit_raises) ==
    /\ active[b]
    /\ ~has_report_today(reports, b)
    /\ LET sent == dispatch_loop(SubSeq(list_active, 1, position(b)),
                                 reports, states, NoDMs, {})
       IN  outbox' = sent.outbox                               \* line 78, 92
    /\ last' = Last("dispatch", NULL,
                    IF commit_raises THEN ErrorResult("PendingRollbackError")
                    ELSE NoResult)
    /\ UNCHANGED <<calendar_day, active, reports, states, req, channel_posts,
                   handled, published, batch>>

\* ------------------------------------------- dispatch, step by step
\* The pass of send_pending_standups as the other sessions see it: the job
\* has a session of its own (line 36), every DM goes out when its user's
\* turn comes, and the state rows written are in the job's transaction
\* until the commit of line 107. batch.states: the rows written so far.

\* As dispatch_list_active, with every user taken, active or not.
dispatch_list_all == UserOrder

\* standup_service.py:47: the users of the pass, read once
dispatch_list_active == list_active

\* standup_service.py:47-48: the pass begins
dispatch_begin ==
    /\ batch.pc = "idle"
    /\ batch' = [pc |-> "running", users |-> dispatch_list_active,
                 position |-> 1, states |-> {}]
    /\ outbox' = NoDMs
    /\ last' = Last("dispatch", NULL, NoResult)
    /\ UNCHANGED <<calendar_day, active, reports, states, req, channel_posts,
                   handled, published>>

\* standup_service.py:51-105: the turn of the next user of the pass
dispatch_step(send_ok) ==
    /\ batch.pc = "running"
    /\ batch.position <= Len(batch.users)
    /\ LET u == batch.users[batch.position]
           r == dispatch_user(reports, batch.states, u, send_ok)
       IN  /\ outbox' = [outbox EXCEPT ![u] = r.dms]
           /\ batch' = [batch EXCEPT !.position = @ + 1, !.states = r.states]
    /\ last' = Last("dispatch", NULL, NoResult)
    /\ UNCHANGED <<calendar_day, active, reports, states, req, channel_posts,
                   handled, published>>

\* standup_service.py:107: the commit, which puts the rows written in the
\* place of the rows their users had
dispatch_commit ==
    /\ batch.pc = "running"
    /\ batch.position > Len(batch.users)
    /\ states' = {s \in states :
                     \A w \in batch.states : w.user_id # s.user_id}
                     \cup batch.states
    /\ batch' = NoBatch
    /\ last' = Last("dispatch", NULL, NoResult)
    /\ UNCHANGED <<calendar_day, active, reports, outbox, req, channel_posts,
                   handled, published>>

\* -------------------------------------------------------------- answer
\* As question_key, with the questions taken from the last to the first.
question_key_from_end(question_index) ==
    QUESTIONS[Len(QUESTIONS) - (question_index % Len(QUESTIONS))]

\* QUESTIONS[question_index][0] with Python's indexing: a negative index
\* counts from the end.
question_key(question_index) ==
    IF question_index < 0
    THEN QUESTIONS[Len(QUESTIONS) + question_index + 1]
    ELSE QUESTIONS[question_index + 1]

\* As store_answer, indexing QUESTIONS from 1.
store_answer_next_slot(reps, report_id, question_index, answer_text) ==
    report_update(reps, report_id,
                  question_key((question_index + 1) % Len(QUESTIONS)),
                  answer_text)

\* standup_service.py:153-156: the answer goes into the report's field
store_answer(reps, report_id, question_index, answer_text) ==
    report_update(reps, report_id, question_key(question_index), answer_text)

\* As complete_report, without the delete of the state row.
complete_report_keeps_state(reps, sts, report_id, user_id, now) ==
    [reports |-> mark_completed(reps, report_id, now),
     states |-> sts,
     result |-> CompleteReport(report_id)]

\* As complete_report, with the state row kept at the index past the last
\* question instead of deleted.
complete_report_advances_state(reps, sts, report_id, user_id, now) ==
    [reports |-> mark_completed(reps, report_id, now),
     states |-> {IF s.user_id = user_id
                 THEN [s EXCEPT !.current_question_index = Len(QUESTIONS)]
                 ELSE s : s \in sts},
     result |-> CompleteReport(report_id)]

\* standup_service.py:160-167: all questions answered
complete_report(reps, sts, report_id, user_id, now) ==
    [reports |-> mark_completed(reps, report_id, now),
     states |-> state_delete(sts, user_id),
     result |-> CompleteReport(report_id)]

\* As next_question, without the write of the index.
next_question_keeps_index(reps, sts, user_id, next_index) ==
    [reports |-> reps, states |-> sts, result |-> NextQuestion(next_index)]

\* As next_question, with the index written to every row of the table.
next_question_all_users(reps, sts, user_id, next_index) ==
    [reports |-> reps,
     states |-> {[s EXCEPT !.current_question_index = next_index] : s \in sts},
     result |-> NextQuestion(next_index)]

\* standup_service.py:159, 169-174: on to the next question
next_question(reps, sts, user_id, next_index) ==
    [reports |-> reps,
     states |-> {IF s.user_id = user_id
                 THEN [s EXCEPT !.current_question_index = next_index]
                 ELSE s : s \in sts},
     result |-> NextQuestion(next_index)]

\* standup_service.py:139-174 on the store (reps, sts), for the state row
\* st read at line 134 and the rows seen_report read at line 140.
\* Gives the store committed and the result returned; an exception leaves
\* the store as it was (the session is closed without a commit).
answer_txn(reps, sts, st, seen_report, answer_text, now) ==
    LET uid == st.user_id
        date == st.pending_report_date
        created == seen_report = {}
        new_row == report_create(reps, uid, date, FALSE)
        report_id == IF created THEN new_row.id
                     ELSE (CHOOSE r \in seen_report : TRUE).id
        reps1 == IF created THEN reps \cup {new_row} ELSE reps
        question_index == st.current_question_index
        unchanged(result) == [reports |-> reps, states |-> sts,
                              result |-> result]
    IN  IF created /\ UniqueViolation(reps, uid, date)
        THEN unchanged(ErrorResult("IntegrityError"))          \* line 142
        ELSE IF question_index >= Len(QUESTIONS)
        THEN unchanged(ErrorResult("Invalid state"))           \* line 149-151
        ELSE IF question_index < -Len(QUESTIONS)
        THEN unchanged(ErrorResult("IndexError"))              \* line 153
        ELSE IF get_by_user(sts, uid) = {}
        THEN unchanged(ErrorResult("StaleDataError"))          \* line 159
        ELSE LET reps2 == store_answer(reps1, report_id, question_index,
                                       answer_text)
             IN  IF question_index + 1 >= Len(QUESTIONS)       \* line 160
                 THEN complete_report(reps2, sts, report_id, uid, now)
                 ELSE next_question(reps2, sts, uid, question_index + 1)

\* As handle_user_answer, going on as from index 0 of today's cycle when
\* the user has no PendingState.
handle_user_answer_without_state_check(user_id, answer_text) ==
    LET user == user_get_by_slack_id(user_id)
        state == get_by_user(states, user_id)
    IN  /\ UNCHANGED <<calendar_day, active, outbox, req, channel_posts,
                       handled, published, batch>>
        /\ IF user = {}
           THEN /\ last' = Last("answer", user_id,
                                ErrorResult("User not found in database"))
                /\ UNCHANGED <<reports, states>>
           ELSE LET st == IF state = {}
                          THEN StandupState(user_id, user_date(user_id), 0)
                          ELSE CHOOSE s \in state : TRUE
                    txn == answer_txn(reports, states \cup {st}, st,
                               get_by_user_date(reports, user_id,
                                                st.pending_report_date),
                               answer_text, calendar_day)
                IN  /\ reports' = txn.reports
                    /\ states' = txn.states
                    /\ last' = Last("answer", user_id, txn.result)

\* standup_service.py:110-174, as one transaction
handle_user_answer(user_id, answer_text) ==
    LET user == user_get_by_slack_id(user_id)
        state == get_by_user(states, user_id)
    IN  /\ UNCHANGED <<calendar_day, active, outbox, req, channel_posts,
                       handled, published, batch>>
        /\ IF user = {}                                        \* line 130-132
           THEN /\ last' = Last("answer", user_id,
                                ErrorResult("User not found in database"))
                /\ UNCHANGED <<reports, states>>
           ELSE IF state = {}                                  \* line 135-137
           THEN /\ last' = Last("answer", user_id,
                                ErrorResult("No pending standup"))
                /\ UNCHANGED <<reports, states>>
           ELSE LET st == CHOOSE s \in state : TRUE
                    txn == answer_txn(reports, states, st,
                               get_by_user_date(reports, user_id,
                                                st.pending_report_date),
                               answer_text, calendar_day)
                IN  /\ reports' = txn.reports
                    /\ states' = txn.states
                    /\ last' = Last("answer", user_id, txn.result)

\* standup_service.py:129-174 as a function of the store (reps, sts): the
\* store committed and the result returned by one call that runs alone.
answer_call(reps, sts, user_id, answer_text, now) ==
    LET state == get_by_user(sts, user_id)
        unchanged(result) == [reports |-> reps, states |-> sts,
                              result |-> result]
    IN  IF user_get_by_slack_id(user_id) = {}                  \* line 130-132
        THEN unchanged(ErrorResult("User not found in database"))
        ELSE IF state = {}                                     \* line 135-137
        THEN unchanged(ErrorResult("No pending standup"))
        ELSE LET st == CHOOSE s \in state : TRUE
             IN  answer_txn(reps, sts, st,
                            get_by_user_date(reps, user_id,
                                             st.pending_report_date),
                            answer_text, now)

\* ---------------------------------------------------------------- skip
\* As skip_txn, with the answers of an existing report cleared.
skip_txn_resets_answers(reps, sts, st, seen_report) ==
    LET uid == st.user_id
        date == st.pending_report_date
        blank(r) == [StandupReport(r.id, uid, date, TRUE)
                         EXCEPT !.completed_at = r.completed_at]
    IN  IF seen_report # {}
        THEN [reports |-> {IF r \in seen_report THEN blank(r) ELSE r
                              : r \in reps},
              states |-> state_delete(sts, uid),
              result |-> Skipped]
        ELSE [reports |-> reps \cup {report_create(reps, uid, date, TRUE)},
              states |-> state_delete(sts, uid),
              result |-> Skipped]

\* As skip_txn, without the delete of the state row.
skip_txn_keeps_state(reps, sts, st, seen_report) ==
    LET uid == st.user_id
        date == st.pending_report_date
    IN  IF seen_report # {}
        THEN [reports |-> report_update(reps,
                              (CHOOSE r \in seen_report : TRUE).id,
                              "skipped", TRUE),
              states |-> sts,
              result |-> Skipped]
        ELSE [reports |-> reps \cup {report_create(reps, uid, date, TRUE)},
              states |-> sts,
              result |-> Skipped]

\* standup_service.py:204-219 on the store (reps, sts), for the state row
\* st read at line 199 and the rows seen_report read at line 205.
skip_txn(reps, sts, st, seen_report) ==
    LET uid == st.user_id
        date == st.pending_report_date
    IN  IF seen_report # {}
        THEN [reports |-> report_update(reps,                  \* line 206-208
                              (CHOOSE r \in seen_report : TRUE).id,
                              "skipped", TRUE),
              states |-> state_delete(sts, uid),               \* line 218
              result |-> Skipped]
        ELSE IF UniqueViolation(reps, uid, date)
        THEN [reports |-> reps, states |-> sts,                \* line 211
              result |-> ErrorResult("IntegrityError")]
        ELSE [reports |-> reps \cup {report_create(reps, uid, date, TRUE)},
              states |-> state_delete(sts, uid),               \* line 209-218
              result |-> Skipped]

\* As skip_notification, whatever the flag.
skip_notification_always(flag, post_ok) ==
    <<ChannelPost(slack_default_channel, "skip_notification", post_ok)>>

\* standup_service.py:223-235: the posts attempted for the notification.
\* flag: settings.skip_notification_to_channel; post_ok: whether
\* _post_to_channel (lines 318-334) delivers or raises.
skip_notification(flag, post_ok) ==
    IF ~flag THEN <<>>                                         \* line 224-225
    ELSE <<ChannelPost(slack_default_channel, "skip_notification", post_ok)>>

\* As handle_skip_today_with, skipping today's cycle when the user has no
\* PendingState.
handle_skip_today_without_state_check(flag, post_ok, slack_user_id) ==
    LET user == user_get_by_slack_id(slack_user_id)
        state == get_by_user(states, slack_user_id)
    IN  /\ UNCHANGED <<calendar_day, active, outbox, req,
                       handled, published, batch>>
        /\ IF user = {}
           THEN /\ last' = Last("skip", slack_user_id,
                                ErrorResult("User not found"))
                /\ channel_posts' = <<>>
                /\ UNCHANGED <<reports, states>>
           ELSE LET st == IF state = {}
                          THEN StandupState(slack_user_id,
                                            user_date(slack_user_id), 0)
                          ELSE CHOOSE s \in state : TRUE
                    txn == skip_txn(reports, states, st,
                               get_by_user_date(reports, slack_user_id,
                                                st.pending_report_date))
                IN  /\ reports' = txn.reports
                    /\ states' = txn.states
                    /\ last' = Last("skip", slack_user_id, txn.result)
                    /\ channel_posts' = skip_notification(flag, post_ok)

\* standup_service.py:177-237, the transaction and then the notification,
\* for a value of the flag and an outcome of the post
handle_skip_today_with(flag, post_ok, slack_user_id) ==
    LET user == user_get_by_slack_id(slack_user_id)
        state == get_by_user(states, slack_user_id)
    IN  /\ UNCHANGED <<calendar_day, active, outbox, req,
                       handled, published, batch>>
        /\ IF user = {}                                        \* line 195-197
           THEN /\ last' = Last("skip", slack_user_id,
                                ErrorResult("User not found"))
                /\ channel_posts' = <<>>
                /\ UNCHANGED <<reports, states>>
           ELSE IF state = {}                                  \* line 200-202
           THEN /\ last' = Last("skip", slack_user_id,
                                ErrorResult("No pending standup"))
                /\ channel_posts' = <<>>
                /\ UNCHANGED <<reports, states>>
           ELSE LET st == CHOOSE s \in state : TRUE
                    txn == skip_txn(reports, states, st,
                               get_by_user_date(reports, slack_user_id,
                                                st.pending_report_date))
                IN  /\ reports' = txn.reports
                    /\ states' = txn.states
                    /\ last' = Last("skip", slack_user_id, txn.result)
                    /\ channel_posts' =
                          IF txn.result = Skipped              \* line 219-235
                          THEN skip_notification(flag, post_ok)
                          ELSE <<>>

\* standup_service.py:177-237, with the flag as configured
handle_skip_today(slack_user_id) ==
    handle_skip_today_with(skip_notification_to_channel, TRUE, slack_user_id)

\* ------------------------------------------------- post to the channel
\* StandupReportRepository.get_by_id, UserRepository.get_by_id
report_get_by_id(reps, report_id) == {r \in reps : r.id = report_id}
user_get_by_id(user_id) == {u \in Users : u = user_id}

\* As post_report, with a failed post reported as posted.
post_report_ignores_failure(reps, report_id, post_ok) ==
    LET report == report_get_by_id(reps, report_id)
    IN  IF report = {}
        THEN [result |-> ErrorResult("Report not found"), posts |-> <<>>]
        ELSE IF user_get_by_id((CHOOSE r \in report : TRUE).user_id) = {}
        THEN [result |-> ErrorResult("User not found"), posts |-> <<>>]
        ELSE [result |-> Posted(slack_default_channel),
              posts |-> <<ChannelPost(slack_default_channel,
                                      "standup_report", post_ok)>>]

\* standup_service.py:257-293: the result returned and the posts attempted.
\* post_ok: whether _post_to_channel (lines 318-334) delivers or raises.
post_report(reps, report_id, post_ok) ==
    LET report == report_get_by_id(reps, report_id)
    IN  IF report = {}                                         \* line 259-261
        THEN [result |-> ErrorResult("Report not found"), posts |-> <<>>]
        ELSE IF user_get_by_id((CHOOSE r \in report : TRUE).user_id) = {}
        THEN [result |-> ErrorResult("User not found"),        \* line 265-267
              posts |-> <<>>]
        ELSE IF ~post_ok                                       \* line 291-293
        THEN [result |-> ErrorResult("Failed to post"),
              posts |-> <<ChannelPost(slack_default_channel,
                                      "standup_report", FALSE)>>]
        ELSE [result |-> Posted(slack_default_channel),        \* line 282-289
              posts |-> <<ChannelPost(slack_default_channel,
                                      "standup_report", TRUE)>>]

\* standup_service.py:240-293
post_report_to_channel(report_id, post_ok) ==
    LET r == post_report(reports, report_id, post_ok)
    IN  /\ last' = Last("post_report", NULL, r.result)
        /\ channel_posts' = r.posts
        /\ UNCHANGED <<calendar_day, active, reports, states, outbox, req,
                       handled, published, batch>>

\* ------------------------------------------------- the message handler
\* The texts of the inbound events, as Slack delivers them, and str.strip
\* (handlers.py:49)
RawTexts == {"", " ", " a "}
strip(text) == CASE text = " a " -> "a"
                 [] text = " "   -> ""
                 [] OTHER        -> text

\* The inbound message events: a message of any sender (user may be
\* missing) with any text, and a bot's message, on which bot_id is set.
Events ==
    [bot_id : {NULL}, user : SlackIds \cup {NULL}, text : RawTexts]
        \cup [bot_id : {"B1"}, user : {UserOrder[1]}, text : {" a "}]

\* utils: is_bot_message(event)
is_bot_message(event) == event.bot_id # NULL

\* The texts of the exceptions the database driver raises at line 63.
ExceptionTexts == {"connection refused",
                   "password authentication failed for user standup"}

\* The exceptions that leave handle_user_answer, as the model's results
\* name them.
Raised == {"IntegrityError", "IndexError", "StaleDataError"}

\* The DMs the handler says to the sender
DM(kind, text, index) == [kind |-> kind, text |-> text, index |-> index]
SubscribeInstruction ==                                    \* lines 66-70
    DM("not_subscribed", "Use /standup subscribe to start", -1)
WaitInstruction ==                                         \* lines 76-80
    DM("no_pending", "No pending standup right now", -1)
build_error_message(error_text) == DM("error", error_text, -1)
build_question_message(question_index) == DM("question", "", question_index)
build_completion_message == DM("completion", "", -1)

\* handlers.py:148-150: what the except clause says for exception e
top_level_error(e) == build_error_message("An error occurred: " \o e)

\* As message_handler, without the checks of lines 64 and 74.
message_handler_without_checks(reps, sts, event, fault, post_ok) ==
    LET user_id == event.user
        text == strip(event.text)
        out(said, calls, logged, r, posts, result) ==
            [reports |-> r.reports, states |-> r.states, said |-> said,
             calls |-> calls, logged |-> logged, posts |-> posts,
             result |-> result]
        same == [reports |-> reps, states |-> sts]
        txn == answer_call(reps, sts, user_id, text, calendar_day)
    IN  IF is_bot_message(event) \/ user_id = NULL \/ text = ""
        THEN out(<<>>, <<>>, NULL, same, <<>>, NoResult)
        ELSE IF fault # NULL
        THEN out(<<top_level_error(fault)>>, <<>>, fault, same, <<>>,
                 NoResult)
        ELSE out(<<build_error_message(txn.result.message)>>,
                 <<"handle_user_answer">>, NULL, txn, <<>>, txn.result)

\* handlers.py:34-150 as a function of the store: the store it leaves, the
\* DMs said, the service operations called, the exception logged, the
\* channel posts attempted and handle_user_answer's result. fault: the
\* exception raised by the query of line 63 (NULL: none); post_ok: whether
\* _post_to_channel delivers.
message_handler(reps, sts, event, fault, post_ok) ==
    LET user_id == event.user
        text == strip(event.text)
        out(said, calls, logged, r, posts, result) ==
            [reports |-> r.reports, states |-> r.states, said |-> said,
             calls |-> calls, logged |-> logged, posts |-> posts,
             result |-> result]
        same == [reports |-> reps, states |-> sts]
        txn == answer_call(reps, sts, user_id, text, calendar_day)
        result == txn.result
        post == post_report(txn.reports, result.report_id, post_ok)
    IN  IF is_bot_message(event)                               \* line 44-45
        THEN out(<<>>, <<>>, NULL, same, <<>>, NoResult)
        ELSE IF user_id = NULL \/ text = ""                    \* line 52-53
        THEN out(<<>>, <<>>, NULL, same, <<>>, NoResult)
        ELSE IF fault # NULL                                   \* line 63, 148
        THEN out(<<top_level_error(fault)>>, <<>>, fault, same, <<>>,
                 NoResult)
        ELSE IF user_get_by_slack_id(user_id) = {}             \* line 64-71
        THEN out(<<SubscribeInstruction>>, <<>>, NULL, same, <<>>, NoResult)
        ELSE IF get_by_user(sts, user_id) = {}                 \* line 74-81
        THEN out(<<WaitInstruction>>, <<>>, NULL, same, <<>>, NoResult)
        ELSE IF result.action = "error" /\ result.message \in Raised
        THEN out(<<top_level_error(result.message)>>,          \* line 84, 148
                 <<"handle_user_answer">>, result.message, txn, <<>>, result)
        ELSE IF result.action = "error"                        \* line 86-88
        THEN out(<<build_error_message(result.message)>>,
                 <<"handle_user_answer">>, NULL, txn, <<>>, result)
        ELSE IF result.action = "next_question"                \* line 115-129
        THEN out(<<build_question_message(result.question_index)>>,
                 <<"handle_user_answer">>, NULL, txn, <<>>, result)
        ELSE IF result.report_id = 0                           \* line 133-138
        THEN out(<<build_completion_message>>, <<"handle_user_answer">>,
                 NULL, txn, <<>>, result)
        ELSE out(<<build_completion_message>>,                 \* line 139-146
                 <<"handle_user_answer", "post_report_to_channel">>,
                 NULL, txn, post.posts, result)

\* The report ids handed to post_report_to_channel, with one more
publish(pub, report_id) ==
    [ids |-> pub.ids \cup {report_id},
     repeated |-> pub.repeated \cup ({report_id} \cap pub.ids)]

\* handlers.py:34-150
handle_message(event, fault, post_ok) ==
    LET h == message_handler(reports, states, event, fault, post_ok)
        called(op) == \E i \in 1..Len(h.calls) : h.calls[i] = op
    IN  /\ reports' = h.reports
        /\ states' = h.states
        /\ handled' = [op |-> "message", event |-> event, said |-> h.said,
                       calls |-> h.calls, logged |-> h.logged]
        /\ channel_posts' = h.posts
        /\ published' = IF called("post_report_to_channel")
                        THEN publish(published, h.result.report_id)
                        ELSE published
        /\ last' = IF called("handle_user_answer")
                   THEN Last("answer", event.user, h.result)
                   ELSE Last("message", event.user, NoResult)
        /\ UNCHANGED <<calendar_day, active, outbox, req, batch>>

\* --------------------------------------------------------------- pause
\* handlers.py:252-278
handle_pause_button(user_id) ==
    /\ user_get_by_slack_id(user_id) # {}
    /\ active[user_id]
    /\ active' = [active EXCEPT ![user_id] = FALSE]
    /\ last' = Last("pause", user_id, NoResult)
    /\ UNCHANGED <<calendar_day, reports, states, outbox, req, channel_posts,
                   handled, published, batch>>

\* onboarding_handlers.py:96-110: /standup unsubscribe
handle_unsubscribe(user_id) ==
    /\ user_get_by_slack_id(user_id) # {}
    /\ active' = [active EXCEPT ![user_id] = FALSE]
    /\ last' = Last("unsubscribe", user_id, NoResult)
    /\ UNCHANGED <<calendar_day, reports, states, outbox, req, channel_posts,
                   handled, published, batch>>

\* user_service.create_user as test_create_duplicate_user shows it: for a
\* user who is there already the result carries an error and no row changes
create_user(act, slack_user_id) ==
    IF user_get_by_slack_id(slack_user_id) # {}
    THEN [active |-> act, error |-> "already exists"]
    ELSE [active |-> act, error |-> NULL]

\* onboarding_handlers.py:75-94: /standup subscribe, from a user who has
\* subscribed before
handle_subscribe(user_id) ==
    LET result == create_user(active, user_id)
    IN  /\ user_get_by_slack_id(user_id) # {}
        /\ active' = result.active
        /\ handled' = [NoHandled EXCEPT
                          !.op = "subscribe",
                          !.event = [NoEvent EXCEPT !.user = user_id],
                          !.said = IF result.error # NULL      \* line 84-87
                                   THEN <<DM("already_subscribed", "", -1)>>
                                   ELSE <<DM("welcome", "", -1)>>]
        /\ last' = Last("subscribe", user_id, NoResult)
        /\ UNCHANGED <<calendar_day, reports, states, outbox, req,
                       channel_posts, published, batch>>

\* --------------------------------------------------------------- clock
\* Midnight in the scheduler's timezone, up to day max_day.
advance_day(max_day) ==
    /\ calendar_day < max_day
    /\ calendar_day' = calendar_day + 1
    /\ last' = Last("advance_day", NULL, NoResult)
    /\ UNCHANGED <<active, reports, states, outbox, req, channel_posts,
                   handled, published, batch>>

\* ------------------------------------------------ concurrent requests
\* Each inbound event is handled in a session of its own (handlers.py:58),
\* so two requests interleave at their awaits. A request reads (lines
\* 129-140), and later writes and commits (lines 141-174) on the store as
\* it then is.

\* standup_service.py:129-140: the reads. peers: the requests of the same
\* user in flight at that moment.
answer_begin(r, user_id, answer_text) ==
    LET user == user_get_by_slack_id(user_id)
        state == get_by_user(states, user_id)
        error(message) ==
            /\ req' = [req EXCEPT ![r] =
                          [IdleReq EXCEPT !.pc = "done", !.user = user_id,
                                          !.result = ErrorResult(message)]]
            /\ last' = Last("answer", user_id, ErrorResult(message))
    IN  /\ req[r].pc = "idle"
        /\ UNCHANGED <<calendar_day, active, reports, states, outbox,
                       channel_posts,
                       handled, published, batch>>
        /\ IF user = {} THEN error("User not found in database")
           ELSE IF state = {} THEN error("No pending standup")
           ELSE /\ req' = [req EXCEPT ![r] =
                       [pc |-> "answering", user |-> user_id,
                        text |-> answer_text, state |-> state,
                        report |-> get_by_user_date(reports, user_id,
                            (CHOOSE s \in state : TRUE).pending_report_date),
                        peers |-> {q \in Reqs : /\ req[q].pc = "answering"
                                                /\ req[q].user = user_id},
                        result |-> NoResult]]
                /\ UNCHANGED last

\* standup_service.py:141-174: the writes and the commit
answer_finish(r) ==
    /\ req[r].pc = "answering"
    /\ LET txn == answer_txn(reports, states,
                             CHOOSE s \in req[r].state : TRUE,
                             req[r].report, req[r].text, calendar_day)
       IN  /\ reports' = txn.reports
           /\ states' = txn.states
           /\ req' = [req EXCEPT ![r].pc = "done", ![r].result = txn.result]
           /\ last' = Last("answer", req[r].user, txn.result)
    /\ UNCHANGED <<calendar_day, active, outbox, channel_posts,
                   handled, published, batch>>

\* standup_service.py:194-205: the reads of a skip. peers: the requests of
\* the same user in flight at that moment.
skip_begin(r, slack_user_id) ==
    LET user == user_get_by_slack_id(slack_user_id)
        state == get_by_user(states, slack_user_id)
        error(message) ==
            /\ req' = [req EXCEPT ![r] =
                          [IdleReq EXCEPT !.pc = "done", !.user = slack_user_id,
                                          !.result = ErrorResult(message)]]
            /\ last' = Last("skip", slack_user_id, ErrorResult(message))
    IN  /\ req[r].pc = "idle"
        /\ UNCHANGED <<calendar_day, active, reports, states, outbox,
                       channel_posts,
                       handled, published, batch>>
        /\ IF user = {} THEN error("User not found")
           ELSE IF state = {} THEN error("No pending standup")
           ELSE /\ req' = [req EXCEPT ![r] =
                       [pc |-> "skipping", user |-> slack_user_id,
                        text |-> NULL, state |-> state,
                        report |-> get_by_user_date(reports, slack_user_id,
                            (CHOOSE s \in state : TRUE).pending_report_date),
                        peers |-> {q \in Reqs :
                                     /\ req[q].pc \in {"answering", "skipping"}
                                     /\ req[q].user = slack_user_id},
                        result |-> NoResult]]
                /\ UNCHANGED last

\* standup_service.py:206-219: the writes of a skip and the commit
skip_finish(r) ==
    /\ req[r].pc = "skipping"
    /\ LET txn == skip_txn(reports, states, CHOOSE s \in req[r].state : TRUE,
                           req[r].report)
       IN  /\ reports' = txn.reports
           /\ states' = txn.states
           /\ req' = [req EXCEPT ![r].pc = "done", ![r].result = txn.result]
           /\ last' = Last("skip", req[r].user, txn.result)
    /\ channel_posts' = <<>>                                   \* line 224
    /\ UNCHANGED <<calendar_day, active, outbox,
                   handled, published, batch>>

\* handlers.py:58: the session is closed and the slot is free again
request_return(r) ==
    /\ req[r].pc = "done"
    /\ req' = [req EXCEPT ![r] = IdleReq]
    /\ UNCHANGED <<calendar_day, active, reports, states, outbox, last,
                   channel_posts,
                   handled, published, batch>>

\* --------------------------------------------------------------- Init
\* Both users are subscribed, no standup has run; `paused` have paused.
InitWith(paused) ==
    /\ calendar_day = 1
    /\ active = [u \in Users |-> u \notin paused]
    /\ reports = {}
    /\ states = {}
    /\ outbox = NoDMs
    /\ last = Last("init", NULL, NoResult)
    /\ req = [r \in Reqs |-> IdleReq]
    /\ channel_posts = <<>>
    /\ handled = NoHandled
    /\ published = NoPublished
    /\ batch = NoBatch

Init == InitWith({"U2"})
InitTeam == InitWith({})

\* The column current_question_index is an Integer with no check constraint
\* (models.py:87): a row of standup_states may hold any index. U1 has such
\* a row for day 1, and no report or a report in progress for that day.
InitCorrupt ==
    /\ calendar_day = 1
    /\ active = [u \in Users |-> u = "U1"]
    /\ \E i \in (-MaxIndex)..MaxIndex : states = {StandupState("U1", 1, i)}
    /\ reports \in {{}, {StandupReport(1, "U1", 1, FALSE)}}
    /\ outbox = NoDMs
    /\ last = Last("init", NULL, NoResult)
    /\ req = [r \in Reqs |-> IdleReq]
    /\ channel_posts = <<>>
    /\ handled = NoHandled
    /\ published = NoPublished
    /\ batch = NoBatch

\* ---------------------------------------------------------------- Spec
Dispatch ==
    \E failed \in SUBSET {u \in Users : active[u]} :
        send_pending_standups(failed)
Answer == \E u \in SlackIds, t \in Texts : handle_user_answer(u, t)
Skip == \E u \in SlackIds : handle_skip_today(u)
Pause == \E u \in Users : handle_pause_button(u)
AdvanceDay == advance_day(MaxDay)

\* One user takes part, over several days; every operation runs alone, from
\* its first read to its commit.
Next == Dispatch \/ Answer \/ Skip \/ Pause \/ AdvanceDay

Spec == Init /\ [][Next]_vars

AnswerA == \E u \in SlackIds : handle_user_answer(u, "a")

\* One user takes part, over several days, and writes to the bot; the
\* database may be down when a message comes in, and the post to the
\* channel may fail.
Message ==
    \E event \in Events :
        \/ \E post_ok \in BOOLEAN : handle_message(event, NULL, post_ok)
        \/ \E fault \in ExceptionTexts : handle_message(event, fault, TRUE)

NextChat == Dispatch \/ Message \/ AdvanceDay

SpecChat == Init /\ [][NextChat]_vars

\* Two users take part, on one calendar day; the dispatch job runs step by
\* step while the users answer and pause.
DispatchBegin == dispatch_begin
DispatchStep == \E send_ok \in BOOLEAN : dispatch_step(send_ok)
DispatchCommit == dispatch_commit

NextPass ==
    DispatchBegin \/ DispatchStep \/ DispatchCommit \/ AnswerA \/ Pause

SpecPass == InitTeam /\ [][NextPass]_vars

\* Two users, one of them in a timezone a day ahead, take part over several
\* days; every DM is delivered.
DispatchAll == send_pending_standups({})
AnswerKnown == \E u \in Users : handle_user_answer(u, "a")
SkipKnown == \E u \in Users : handle_skip_today(u)

NextDays == DispatchAll \/ AnswerKnown \/ SkipKnown \/ AdvanceDay

SpecDays == InitTeam /\ [][NextDays]_vars

\* One user takes part, over several days, and pauses, unsubscribes and
\* subscribes again.
Subscribe == \E u \in Users : handle_subscribe(u)
Unsubscribe == \E u \in Users : handle_unsubscribe(u)

NextResume ==
    Dispatch \/ AnswerA \/ Pause \/ Subscribe \/ Unsubscribe \/ AdvanceDay

SpecResume == Init /\ [][NextResume]_vars

\* Two users take part, on one calendar day.
NextTeam == Dispatch \/ Answer \/ Skip

SpecTeam == InitTeam /\ [][NextTeam]_vars

\* One user takes part; the answers are handled concurrently.
AnswerBegin == \E r \in Reqs, u \in SlackIds, t \in Texts : answer_begin(r, u, t)
AnswerFinish == \E r \in Reqs : answer_finish(r)
Return == \E r \in Reqs : request_return(r)

NextConc == Dispatch \/ AnswerBegin \/ AnswerFinish \/ Return

SpecConc == Init /\ [][NextConc]_vars

\* One user takes part; the answers and the skips are handled concurrently.
SkipBegin == \E r \in Reqs, u \in SlackIds : skip_begin(r, u)
SkipFinish == \E r \in Reqs : skip_finish(r)

NextRace ==
    Dispatch \/ AnswerBegin \/ AnswerFinish \/ SkipBegin \/ SkipFinish \/ Return

SpecRace == Init /\ [][NextRace]_vars

\* One user answers and skips, starting with a state row at any index.
NextCorrupt == Answer \/ Skip

SpecCorrupt == InitCorrupt /\ [][NextCorrupt]_vars

\* Two users of two workspaces take part, on one calendar day, with every
\* operation of the service and of the handlers: the skip with the flag on
\* or off and its notification delivered or not, the channel post of any
\* report id, delivered or not, pause and unsubscribe.
SkipWith ==
    \E flag \in BOOLEAN, post_ok \in BOOLEAN, u \in SlackIds :
        handle_skip_today_with(flag, post_ok, u)
PostReport ==
    \E report_id \in 1..(Cardinality(reports) + 1), post_ok \in BOOLEAN :
        post_report_to_channel(report_id, post_ok)

NextOps ==
    Dispatch \/ AnswerA \/ SkipWith \/ PostReport \/ Pause \/ Unsubscribe

SpecOps == InitTeam /\ [][NextOps]_vars

\* Two users take part, on one calendar day; in a run of the dispatch job
\* a send may fail, and so may the write of a state row.
DispatchPersistenceFailure ==
    \E b \in Users, commit_raises \in BOOLEAN :
        send_pending_standups_persistence_failure(b, commit_raises)

NextBatch == Dispatch \/ DispatchPersistenceFailure \/ AnswerA \/ Skip

SpecBatch == InitTeam /\ [][NextBatch]_vars

\* Two users take part, on one calendar day; their answers and skips are
\* handled concurrently.
RequestOf == [u \in Users |-> IF u = UserOrder[1] THEN "r1" ELSE "r2"]
AnswerBeginOwn == \E u \in Users : answer_begin(RequestOf[u], u, "a")
SkipBeginOwn == \E u \in Users : skip_begin(RequestOf[u], u)

NextPair ==
    \/ Dispatch
    \/ AnswerBeginOwn \/ AnswerFinish
    \/ SkipBeginOwn \/ SkipFinish
    \/ Return

SpecPair == InitTeam /\ [][NextPair]_vars

\* One user takes part, every DM is delivered, and the user answers every
\* question of a cycle before the dispatch job runs again: the job keeps
\* running and the answers keep coming.
DispatchAfterAnswers == states = {} /\ send_pending_standups({})
AnswerU1 == \E t \in Texts : handle_user_answer("U1", t)

NextLive == DispatchAfterAnswers \/ AnswerU1 \/ AdvanceDay

SpecLive ==
    /\ Init
    /\ [][NextLive]_vars
    /\ WF_vars(DispatchAfterAnswers)
    /\ WF_vars(AnswerU1)

\* ============================================================== claims
Fields == {"feeling", "yesterday", "today", "blockers"}
Terminal(r) == r.completed_at # NoTime \/ r.skipped
SameAnswers(r, q) == \A f \in Fields : r[f] = q[f]
Advanced(result) == result.action \in {"next_question", "complete_report"}

\* C1: dispatch is idempotent: when a run of send_pending_standups has sent
\* a user the DM that opens a cycle, a second run right after it (no answer,
\* no skip in between) sends that user no further DM and leaves the user's
\* PendingState as the first run wrote it.
C1_SecondDispatchIsNoOp ==
    last.op = "dispatch" =>
        LET again == dispatch_loop(list_active, reports, states, NoDMs, {})
        IN  \A u \in Users :
                outbox[u] # <<>> =>
                    /\ again.outbox[u] = <<>>
                    /\ get_by_user(again.states, u) = get_by_user(states, u)

\* C2: of two handle_user_answer calls of one user that overlap and both
\* read the PendingState at the same index, at most one advances the cycle
\* from that index (returns next_question or complete_report).
C2_AtMostOneAdvances ==
    \A r1, r2 \in Reqs :
        ( /\ r1 # r2
          /\ req[r1].pc = "done" /\ req[r2].pc = "done"
          /\ req[r1].user = req[r2].user
          /\ r1 \in req[r2].peers \/ r2 \in req[r1].peers
          /\ req[r1].state # {} /\ req[r1].state = req[r2].state )
        => ~(Advanced(req[r1].result) /\ Advanced(req[r2].result))

\* C3: handle_user_answer for a user whose PendingState is at the last
\* question returns complete_report with the id of the report of the
\* pending date, that report has completed_at set, the PendingState is gone,
\* and the next handle_user_answer of that user returns the no-pending error
\* and changes nothing.
C3_Completion ==
    [][ \A u \in Users, t \in Texts :
          /\ \A s \in get_by_user(states, u) :
                ( /\ handle_user_answer(u, t)
                  /\ s.current_question_index = Len(QUESTIONS) - 1 )
                => /\ last'.result.action = "complete_report"
                   /\ \E r \in get_by_user_date(reports', u,
                                                s.pending_report_date) :
                         /\ r.id = last'.result.report_id
                         /\ r.completed_at # NoTime
                   /\ get_by_user(states', u) = {}
          /\ ( /\ last.op = "answer" /\ last.user = u
               /\ last.result.action = "complete_report"
               /\ handle_user_answer(u, t) )
             => /\ last'.result = ErrorResult("No pending standup")
                /\ UNCHANGED <<reports, states>>
      ]_vars

C3_Witness ==
    /\ last.op = "answer"
    /\ last.result.action = "complete_report"
    /\ get_by_user(states, last.user) = {}
    /\ \E r \in reports : /\ r.id = last.result.report_id
                          /\ r.user_id = last.user
                          /\ r.completed_at # NoTime

\* C4: for a user whose PendingState is at index i < N-1, one
\* handle_user_answer returns next_question with index i+1, leaves the
\* PendingState at index i+1 with the same pending date, and changes
\* nothing of the reports but the field of question i of the report of the
\* pending date.
C4_Advance ==
    [][ \A u \in Users, t \in Texts : \A s \in get_by_user(states, u) :
          ( /\ handle_user_answer(u, t)
            /\ s.current_question_index >= 0
            /\ s.current_question_index < Len(QUESTIONS) - 1 )
          => LET i == s.current_question_index
                 old == get_by_user_date(reports, u, s.pending_report_date)
                 before == IF old = {}
                           THEN report_create(reports, u,
                                              s.pending_report_date, FALSE)
                           ELSE CHOOSE r \in old : TRUE
             IN  /\ last'.result = NextQuestion(i + 1)
                 /\ get_by_user(states', u) =
                        {[s EXCEPT !.current_question_index = i + 1]}
                 /\ reports' = (reports \ old)
                        \cup {[before EXCEPT ![QUESTIONS[i + 1]] = t]}
      ]_vars

C4_Witness ==
    /\ last.op = "answer"
    /\ last.result = NextQuestion(2)
    /\ \E s \in get_by_user(states, last.user) :
          /\ s.current_question_index = 2
          /\ \E r \in get_by_user_date(reports, last.user,
                                       s.pending_report_date) :
                r.yesterday # NULL /\ r.today = NULL

\* C5: for every active user with no report for today and no report of an
\* earlier date, one run of send_pending_standups in which the send to the
\* user succeeds sends the user exactly one DM, the opening one, and leaves
\* exactly one PendingState of the user, at index 0 for today.
C5_FreshStart ==
    [][ \A failed \in SUBSET Users, u \in Users :
          ( /\ last'.op = "dispatch"
            /\ active[u] /\ u \notin failed
            /\ get_by_user_date(reports, u, user_date(u)) = {}
            /\ \A r \in reports :
                  r.user_id = u => r.report_date >= user_date(u)
            /\ send_pending_standups(failed) )
          => /\ outbox'[u] = <<build_standup_start_message>>
             /\ get_by_user(states', u) = {StandupState(u, user_date(u), 0)}
      ]_vars

C5_Witness ==
    /\ last.op = "dispatch"
    /\ \A u \in Users :
          /\ active[u]
          /\ outbox[u] = <<build_standup_start_message>>
          /\ get_by_user(states, u) = {StandupState(u, user_date(u), 0)}
          /\ \A r \in reports : r.user_id # u

\* C6: for every user with a report dated today (completed, skipped or not
\* yet complete) send_pending_standups sends the user no DM and leaves the
\* user's PendingState and reports as they were.
C6_ReportTodayNoOp ==
    [][ \A failed \in SUBSET Users, u \in Users :
          ( /\ last'.op = "dispatch"
            /\ get_by_user_date(reports, u, user_date(u)) # {}
            /\ send_pending_standups(failed) )
          => /\ outbox'[u] = <<>>
             /\ get_by_user(states', u) = get_by_user(states, u)
             /\ {r \in reports' : r.user_id = u}
                    = {r \in reports : r.user_id = u}
      ]_vars

C6_Witness ==
    /\ last.op = "dispatch"
    /\ \E u, v \in Users :
          /\ active[u] /\ active[v]
          /\ \E r \in get_by_user_date(reports, u, user_date(u)) :
                ~Terminal(r)
          /\ \E s \in get_by_user(states, u) : s.current_question_index >= 1
          /\ outbox[u] = <<>>
          /\ outbox[v] # <<>>

\* C7: when a user has no report for today and the latest report is of an
\* earlier date, send_pending_standups (the send succeeding) sends the
\* catch-up prompt naming the date of that latest report, not the opening
\* prompt, and sets the PendingState to index 0 for that date, not today.
C7_CatchUp ==
    [][ \A failed \in SUBSET Users, u \in Users :
          \A latest \in get_latest_by_user(reports, u) :
          ( /\ last'.op = "dispatch"
            /\ active[u] /\ u \notin failed
            /\ get_by_user_date(reports, u, user_date(u)) = {}
            /\ latest.report_date < user_date(u)
            /\ send_pending_standups(failed) )
          => /\ outbox'[u] = <<build_missed_standup_message(latest.report_date)>>
             /\ get_by_user(states', u) =
                    {StandupState(u, latest.report_date, 0)}
      ]_vars

C7_Witness ==
    /\ last.op = "dispatch"
    /\ \E u \in Users : \E latest \in get_latest_by_user(reports, u) :
          /\ latest.report_date + 2 = user_date(u)
          /\ outbox[u] = <<build_missed_standup_message(latest.report_date)>>
          /\ get_by_user(states, u) = {StandupState(u, latest.report_date, 0)}

\* C8: the date a catch-up cycle is opened for is a date the user has no
\* report for yet.
C8_CatchUpDateIsMissing ==
    last.op = "dispatch" =>
        \A u \in Users : \A s \in get_by_user(states, u) :
            outbox[u] = <<build_missed_standup_message(s.pending_report_date)>>
                => get_by_user_date(reports, u, s.pending_report_date) = {}

\* C9: a user with a gap who answers every question after every run of the
\* dispatch job, the calendar day staying the same, has a report for today
\* after finitely many runs.
HasGap(u) ==
    /\ calendar_day = MaxDay
    /\ get_by_user_date(reports, u, user_date(u)) = {}
    /\ missed_report_date(reports, u) # {}
C9_GapIsClosed ==
    HasGap("U1") ~> (get_by_user_date(reports, "U1", user_date("U1")) # {})

\* C10: once a report is completed or skipped, its four answer fields never
\* change again.
C10_TerminalReportImmutable ==
    [][ \A r \in reports :
          Terminal(r) => \E q \in reports' : q.id = r.id /\ SameAnswers(r, q)
      ]_vars

\* C11: no user has a PendingState whose pending_report_date is the date of
\* a report of that user that is completed or skipped.
C11_NoStateForTerminalReport ==
    \A u \in Users : \A s \in get_by_user(states, u) :
        \A r \in get_by_user_date(reports, u, s.pending_report_date) :
            ~Terminal(r)

C13_OneRowPerKey ==
    /\ \A r, q \in reports :
          (r.user_id = q.user_id /\ r.report_date = q.report_date) => r = q
    /\ \A s, t \in states : s.user_id = t.user_id => s = t

C13_Witness ==
    \E r \in Reqs :
        /\ req[r].pc = "done"
        /\ req[r].report = {}
        /\ req[r].result = ErrorResult("IntegrityError")
        /\ Cardinality(get_by_user_date(reports, req[r].user,
                (CHOOSE s \in req[r].state : TRUE).pending_report_date)) = 1

\* C14: when two operations of one user (two answers, or an answer and a
\* skip) both find no report for the pending date and both try to create
\* it, there is one report row in the end and neither of them fails with a
\* uniqueness violation.
C14_CreateRaceConverges ==
    \A r \in Reqs :
        (req[r].pc = "done" /\ req[r].state # {} /\ req[r].report = {})
        => /\ req[r].result # ErrorResult("IntegrityError")
           /\ Cardinality(get_by_user_date(reports, req[r].user,
                  (CHOOSE s \in req[r].state : TRUE).pending_report_date)) = 1

\* C15: handle_user_answer is atomic: whatever its outcome, a call that read
\* index i either commits both the answer in slot i and the index i+1 (the
\* state deleted and the report completed when i is the last question), or
\* commits nothing and returns an error.
C15_AnswerAtomic ==
    [][ \A r \in Reqs :
          (req[r].pc = "answering" /\ req'[r].pc = "done")
          => LET st == CHOOSE s \in req[r].state : TRUE
                 i == st.current_question_index
                 u == req[r].user
                 mine == get_by_user_date(reports', u, st.pending_report_date)
                 written == \E rep \in mine :
                                rep[QUESTIONS[i + 1]] = req[r].text
                 moved == IF i + 1 < Len(QUESTIONS)
                          THEN \E s \in get_by_user(states', u) :
                                  s.current_question_index = i + 1
                          ELSE /\ get_by_user(states', u) = {}
                               /\ \E rep \in mine : rep.completed_at # NoTime
             IN  \/ /\ req'[r].result.action = "error"
                    /\ UNCHANGED <<reports, states>>
                 \/ /\ req'[r].result.action # "error"
                    /\ written /\ moved
      ]_vars

C15_Witness ==
    \E r, q \in Reqs :
        /\ req[r].pc = "done" /\ req[q].pc = "done"
        /\ req[r].result = ErrorResult("StaleDataError")
        /\ req[q].result.action = "complete_report"
        /\ req[r].user = req[q].user

\* C20: starting with no PendingState, whatever dispatch runs, answers and
\* skips run and however they interleave, handle_user_answer never returns
\* the corrupt-state error.
C20_NeverInvalidState ==
    /\ last.result # ErrorResult("Invalid state")
    /\ \A r \in Reqs : req[r].result # ErrorResult("Invalid state")

C20_Witness ==
    \E r \in Reqs :
        /\ req[r].pc = "done"
        /\ req[r].peers # {}
        /\ req[r].result.action = "complete_report"
        /\ \E s \in req[r].state :
              s.current_question_index = Len(QUESTIONS) - 1

\* C16: for a user with no report, after the dispatch that opens the cycle,
\* four calls of handle_user_answer with texts a0, a1, a2, a3 return
\* next_question 1, 2, 3 and then complete_report, and leave the report of
\* the dispatch's today with a0 in feeling, a1 in yesterday, a2 in today and
\* a3 in blockers, completed_at set, and no PendingState.
C16_FourAnswers ==
    \A u \in Users :
        ( /\ last.op = "dispatch"
          /\ outbox[u] # <<>>
          /\ \A r \in reports : r.user_id # u )
        => \A a0, a1, a2, a3 \in Texts :
             LET now == calendar_day
                 s1 == answer_call(reports, states, u, a0, now)
                 s2 == answer_call(s1.reports, s1.states, u, a1, now)
                 s3 == answer_call(s2.reports, s2.states, u, a2, now)
                 s4 == answer_call(s3.reports, s3.states, u, a3, now)
             IN  /\ s1.result = NextQuestion(1)
                 /\ s2.result = NextQuestion(2)
                 /\ s3.result = NextQuestion(3)
                 /\ s4.result.action = "complete_report"
                 /\ get_by_user(s4.states, u) = {}
                 /\ {r \in s4.reports : r.user_id = u} =
                        {[id |-> s4.result.report_id, user_id |-> u,
                          report_date |-> user_date(u),
                          feeling |-> a0, yesterday |-> a1, today |-> a2,
                          blockers |-> a3, skipped |-> FALSE,
                          completed_at |-> now]}

C16_Witness ==
    /\ last.op = "answer"
    /\ last.result.action = "complete_report"
    /\ get_by_user(states, last.user) = {}
    /\ {r \in reports : r.user_id = last.user} =
           {[id |-> last.result.report_id, user_id |-> last.user,
             report_date |-> user_date(last.user),
             feeling |-> "a", yesterday |-> "b", today |-> "b",
             blockers |-> "a", skipped |-> FALSE,
             completed_at |-> calendar_day]}

\* C17: when a user who has answered at least one question of the cycle
\* skips, the report of the pending date has skipped = TRUE and every answer
\* field holds the value it held before the skip.
C17_SkipKeepsAnswers ==
    [][ \A u \in Users : \A s \in get_by_user(states, u) :
          \A r \in get_by_user_date(reports, u, s.pending_report_date) :
          ( /\ s.current_question_index >= 1
            /\ handle_skip_today(u) )
          => \E q \in get_by_user_date(reports', u, s.pending_report_date) :
                /\ q.id = r.id
                /\ q.skipped
                /\ SameAnswers(r, q)
      ]_vars

C17_Witness ==
    /\ last.op = "skip"
    /\ last.result = Skipped
    /\ \E r \in reports :
          /\ r.user_id = last.user
          /\ r.report_date = user_date(last.user)
          /\ r.skipped
          /\ r.feeling = "a" /\ r.yesterday = "b"
          /\ r.today = NULL /\ r.blockers = NULL

\* C18: for a user with a PendingState at any index 0..N-1,
\* handle_skip_today returns skipped, leaves exactly one report of the
\* pending date, with skipped = TRUE (a new one with empty answer fields when
\* there was none), touches no other report, and deletes the PendingState;
\* the next handle_user_answer or handle_skip_today of that user returns the
\* no-pending error and changes nothing.
C18_Skip ==
    [][ \A u \in Users :
          /\ \A s \in get_by_user(states, u) :
                ( /\ s.current_question_index \in 0..(Len(QUESTIONS) - 1)
                  /\ handle_skip_today(u) )
                => LET old == get_by_user_date(reports, u,
                                               s.pending_report_date)
                       new == get_by_user_date(reports', u,
                                               s.pending_report_date)
                   IN  /\ last'.result = Skipped
                       /\ Cardinality(new) = 1
                       /\ \A q \in new : q.skipped
                       /\ old = {} => new = {report_create(reports, u,
                                                s.pending_report_date, TRUE)}
                       /\ reports' \ new = reports \ old
                       /\ get_by_user(states', u) = {}
          /\ ( /\ last.op = "skip" /\ last.user = u
               /\ last.result = Skipped
               /\ \/ handle_skip_today(u)
                  \/ \E t \in Texts : handle_user_answer(u, t) )
             => /\ last'.result = ErrorResult("No pending standup")
                /\ UNCHANGED <<reports, states>>
      ]_vars

C18_Witness ==
    /\ last.op = "skip"
    /\ last.result = Skipped
    /\ get_by_user(states, last.user) = {}
    /\ \E r \in reports :
          /\ r = [StandupReport(r.id, last.user, user_date(last.user), TRUE)
                     EXCEPT !.completed_at = r.completed_at]
          /\ r.completed_at = NoTime

\* C19: when a user's PendingState has an index outside 0..N-1, negative
\* ones included, handle_user_answer returns the corrupt-state error, writes
\* no answer field, leaves the index as it is and completes no report.
C19_CorruptIndexRejected ==
    [][ \A u \in Users, t \in Texts : \A s \in get_by_user(states, u) :
          ( /\ s.current_question_index \notin 0..(Len(QUESTIONS) - 1)
            /\ handle_user_answer(u, t) )
          => /\ last'.result = ErrorResult("Invalid state")
             /\ UNCHANGED <<reports, states>>
      ]_vars

\* C21: every PendingState row has current_question_index within
\* 0..N_QUESTIONS, in every committed state.
C21_IndexInRange ==
    \A s \in states : s.current_question_index \in 0..Len(QUESTIONS)

C21_Witness ==
    /\ \E s \in states : s.current_question_index = Len(QUESTIONS) - 1
    /\ \E r \in Reqs : /\ req[r].pc = "done"
                        /\ req[r].peers # {}
                        /\ req[r].result.action = "next_question"

\* C22: handle_user_answer and handle_skip_today, called for an unknown
\* Slack id or for a known user with no PendingState, return an error result
\* (user not found, no pending standup) and leave every report and every
\* PendingState as it was: no report is created.
C22_DomainErrors ==
    [][ \A u \in SlackIds :
          LET unknown == user_get_by_slack_id(u) = {}
          IN  (unknown \/ get_by_user(states, u) = {})
              => /\ ( /\ last'.op = "answer" /\ last'.user = u
                      /\ \E t \in Texts : handle_user_answer(u, t) )
                    => /\ last'.result = ErrorResult(
                              IF unknown THEN "User not found in database"
                              ELSE "No pending standup")
                       /\ UNCHANGED <<reports, states>>
                 /\ ( /\ last'.op = "skip" /\ last'.user = u
                      /\ \E flag \in BOOLEAN, post_ok \in BOOLEAN :
                            handle_skip_today_with(flag, post_ok, u) )
                    => /\ last'.result = ErrorResult(
                              IF unknown THEN "User not found"
                              ELSE "No pending standup")
                       /\ UNCHANGED <<reports, states>>
      ]_vars

C22_Witness ==
    /\ last.op = "skip"
    /\ last.user \in Users
    /\ last.result = ErrorResult("No pending standup")
    /\ \E r \in reports : r.user_id = last.user /\ r.completed_at # NoTime
    /\ \E s \in states : s.user_id # last.user

\* C23: a PendingState comes into existence only through
\* send_pending_standups: no answer, skip, channel post, pause or unsubscribe
\* takes a user from no PendingState to one.
C23_StateOnlyByDispatch ==
    [][ \A u \in Users :
          (get_by_user(states, u) = {} /\ get_by_user(states', u) # {})
          => last'.op = "dispatch"
      ]_vars

C23_Witness ==
    /\ last.op = "dispatch"
    /\ \E u \in Users :
          /\ get_by_user(states, u) # {}
          /\ ~active[u]

\* C24: send_pending_standups creates, deletes and modifies no report row;
\* a report row is created only by handle_user_answer, for the pending date
\* when that date has no report yet, or by handle_skip_today.
C24_DispatchLeavesReports ==
    [][ /\ last'.op = "dispatch" => reports' = reports
        /\ \A r \in reports' :
              (\A q \in reports : q.id # r.id)
              => /\ last'.op \in {"answer", "skip"}
                 /\ r.user_id = last'.user
                 /\ \E s \in get_by_user(states, r.user_id) :
                       /\ s.pending_report_date = r.report_date
                       /\ get_by_user_date(reports, r.user_id,
                                           r.report_date) = {}
      ]_vars

C24_Witness ==
    /\ last.op = "dispatch"
    /\ \E u \in Users :
          /\ outbox[u] # <<>>
          /\ \E s \in get_by_user(states, u) :
                /\ s.current_question_index = 0
                /\ \E r \in get_by_user_date(reports, u,
                                             s.pending_report_date) :
                      r.feeling # NULL /\ r.completed_at = NoTime

Opened(u, sts, out) ==
    /\ out[u] # <<>>
    /\ \E s \in get_by_user(sts, u) : s.current_question_index = 0

\* C25: in one run of send_pending_standups, a failure of the send or of
\* the persistence for one user does not abort the batch: every active user
\* that comes later in the pass and has no report for today is sent the DM
\* and has the PendingState at index 0 committed, and no exception leaves
\* the run.
C25_BatchGoesOn ==
    [][ \A u \in Users :
          ( /\ last'.op = "dispatch"
            /\ active[u]
            /\ ~has_report_today(reports, u) )
          => /\ \A failed \in SUBSET {f \in Users : active[f]} :
                   ( /\ u \notin failed
                     /\ \E f \in failed : position(f) < position(u)
                     /\ send_pending_standups(failed) )
                   => /\ Opened(u, states', outbox')
                      /\ last'.result.action # "error"
             /\ \A b \in Users :
                   ( /\ active[b]
                     /\ position(b) < position(u)
                     /\ \E commit_raises \in BOOLEAN :
                           send_pending_standups_persistence_failure(
                               b, commit_raises) )
                   => /\ Opened(u, states', outbox')
                      /\ last'.result.action # "error"
      ]_vars

\* C26: when the DM to a user fails in one dispatch tick, that tick sends
\* the user nothing (no retry) and creates or modifies no PendingState of
\* the user; the next tick in which the send succeeds opens a cycle for the
\* user, with the PendingState at index 0, and, when the user has no report
\* at all, with the opening DM and today as the pending date.
C26_FailedSendIsRetriedNextTick ==
    [][ last'.op = "dispatch" =>
        \A u \in Users : \A failed \in SUBSET Users :
          /\ ( /\ active[u] /\ u \in failed
               /\ send_pending_standups(failed) )
             => /\ outbox'[u] = <<>>
                /\ get_by_user(states', u) = get_by_user(states, u)
          /\ ( /\ last.op = "dispatch"
               /\ active[u] /\ u \notin failed
               /\ outbox[u] = <<>>
               /\ ~has_report_today(reports, u)
               /\ send_pending_standups(failed) )
             => /\ Opened(u, states', outbox')
                /\ (\A r \in reports : r.user_id # u)
                     => /\ outbox'[u] = <<build_standup_start_message>>
                        /\ get_by_user(states', u) =
                               {StandupState(u, user_date(u), 0)}
      ]_vars

C26_Witness ==
    /\ last.op = "dispatch"
    /\ \E u, v \in Users :
          /\ active[u] /\ active[v]
          /\ outbox[u] = <<>>
          /\ ~has_report_today(reports, u)
          /\ get_by_user(states, u) = {}
          /\ outbox[v] # <<>>
          /\ position(u) < position(v)

\* C27: with the skip-notification flag on and the post to the channel
\* failing, handle_skip_today still returns skipped and the skip stays
\* committed (report skipped, PendingState deleted); with the flag off no
\* post to a channel is attempted.
C27_SkipNotification ==
    [][ last'.op = "skip" =>
        \A u \in Users : \A s \in get_by_user(states, u) :
        \A flag \in BOOLEAN, post_ok \in BOOLEAN :
          ( /\ last'.user = u
            /\ handle_skip_today_with(flag, post_ok, u) )
          => /\ last'.result = Skipped
             /\ get_by_user(states', u) = {}
             /\ \E r \in get_by_user_date(reports', u,
                                          s.pending_report_date) : r.skipped
             /\ channel_posts' =
                   IF flag
                   THEN <<ChannelPost(slack_default_channel,
                                      "skip_notification", post_ok)>>
                   ELSE <<>>
      ]_vars

C27_Witness ==
    /\ last.op = "skip"
    /\ last.result = Skipped
    /\ channel_posts = <<ChannelPost(slack_default_channel,
                                     "skip_notification", FALSE)>>
    /\ get_by_user(states, last.user) = {}
    /\ \E r \in reports :
          r.user_id = last.user /\ r.skipped /\ r.feeling # NULL

\* A report row whose user row is gone.
OrphanReport == StandupReport(0, "U0", 1, FALSE)

\* C28: post_report_to_channel never raises for a domain or send failure:
\* an unknown report id gives the report-not-found error result, a report
\* whose user is missing the user-not-found error result, a failure of the
\* post a failure result, and in each case no report and no PendingState is
\* changed.
C28_PostReportErrors ==
    [][ last'.op = "post_report" =>
        /\ \A report_id \in 1..(Cardinality(reports) + 1) :
           \A post_ok \in BOOLEAN :
             post_report_to_channel(report_id, post_ok)
             => /\ UNCHANGED <<reports, states>>
                /\ last'.result.action \in {"error", "posted"}
                /\ report_get_by_id(reports, report_id) = {}
                      => /\ last'.result = ErrorResult("Report not found")
                         /\ channel_posts' = <<>>
                /\ (report_get_by_id(reports, report_id) # {} /\ ~post_ok)
                      => last'.result = ErrorResult("Failed to post")
        /\ \A post_ok \in BOOLEAN :
              post_report(reports \cup {OrphanReport}, OrphanReport.id,
                          post_ok)
                = [result |-> ErrorResult("User not found"), posts |-> <<>>]
      ]_vars

C28_Witness ==
    /\ last.op = "post_report"
    /\ last.result = ErrorResult("Failed to post")
    /\ channel_posts = <<ChannelPost(slack_default_channel,
                                     "standup_report", FALSE)>>
    /\ \E r \in reports : r.completed_at # NoTime
    /\ states # {}

\* C29: post_report_to_channel posts the report to the report channel
\* configured for the workspace of the report's user.
C29_PostsToWorkspaceChannel ==
    [][ last'.op = "post_report" =>
        \A report_id \in 1..Cardinality(reports) :
        \A r \in report_get_by_id(reports, report_id) :
          post_report_to_channel(report_id, TRUE)
          => channel_posts' =
                <<ChannelPost(report_channel_id[UserWorkspace[r.user_id]],
                              "standup_report", TRUE)>>
      ]_vars

\* What user u sees and owns after a call: the result without the report id
\* (ids come from one sequence shared by all users) and u's own rows.
OwnRows(u, reps, sts) ==
    [states |-> get_by_user(sts, u),
     reports |-> {[r EXCEPT !.id = 0] : r \in {x \in reps : x.user_id = u}}]

\* The outcome request q would have if it were to write and commit on the
\* store (reps, sts).
OutcomeOn(q, reps, sts) ==
    LET st == CHOOSE s \in req[q].state : TRUE
        txn == IF req[q].pc = "answering"
               THEN answer_txn(reps, sts, st, req[q].report, req[q].text,
                               calendar_day)
               ELSE skip_txn(reps, sts, st, req[q].report)
    IN  [action |-> txn.result.action,
         message |-> txn.result.message,
         question_index |-> txn.result.question_index,
         rows |-> OwnRows(req[q].user, txn.reports, txn.states)]

\* C30: operations for different users never interfere. In any interleaving,
\* a step of a handle_user_answer or handle_skip_today call for user A leaves
\* the PendingState and the Reports of every other user B unchanged, and a
\* call of B that is in flight has the same outcome (result and B's rows, up
\* to the report id) on the store after A's step as on the store before it.
C30_UsersDoNotInterfere ==
    [][last'.op \in {"answer", "skip"} =>
         \A b \in Users \ {last'.user} :
            /\ get_by_user(states', b) = get_by_user(states, b)
            /\ {r \in reports' : r.user_id = b}
                   = {r \in reports : r.user_id = b}
            /\ LET q == RequestOf[b]
               IN  (req[q].pc \in {"answering", "skipping"} /\ req'[q] = req[q])
                      => OutcomeOn(q, reports', states')
                             = OutcomeOn(q, reports, states)]_vars

\* User A's call has completed and created A's report while a call of
\* another user B, which has yet to create B's report, is in flight.
C30_Witness ==
    \E r \in Reqs, q \in Reqs :
        /\ req[r].pc = "done"
        /\ req[r].result.action \in {"complete_report", "skipped"}
        /\ last.user = req[r].user
        /\ req[q].pc \in {"answering", "skipping"}
        /\ req[q].user # req[r].user
        /\ req[q].report = {}
        /\ \E x \in reports : x.user_id = req[r].user

\* C31: when an unexpected exception reaches the top-level message handler,
\* the message shown to the user is a generic error that does not depend on
\* the exception's content: whatever the text of the exception, the handler
\* says what it would have said for any other exception text.
C31_GenericErrorMessage ==
    [][(last'.op \in {"message", "answer"} /\ handled'.op = "message"
           /\ handled'.logged # NULL)
          => \A e \in ExceptionTexts \cup Raised :
                handled'.said = <<top_level_error(e)>>]_vars

\* C32: the inbound message handler sends a subscribe instruction to a
\* sender who is not a known user and a wait instruction to a known user
\* with no PendingState, and in both cases calls no handle_user_answer and
\* changes no Report or PendingState; bot messages and empty texts are
\* ignored with no state change.
C32_HandlerInstructs ==
    [][(last'.op \in {"message", "answer"} /\ handled'.op = "message"
           /\ handled'.logged = NULL)
          => LET event == handled'.event
                 ignored == \/ is_bot_message(event)
                            \/ event.user = NULL
                            \/ strip(event.text) = ""
                 unknown == user_get_by_slack_id(event.user) = {}
                 idle == get_by_user(states, event.user) = {}
                 untouched == /\ handled'.calls = <<>>
                              /\ reports' = reports
                              /\ states' = states
             IN  /\ ignored => (handled'.said = <<>> /\ untouched)
                 /\ (~ignored /\ unknown)
                       => (handled'.said = <<SubscribeInstruction>>
                              /\ untouched)
                 /\ (~ignored /\ ~unknown /\ idle)
                       => (handled'.said = <<WaitInstruction>> /\ untouched)
       ]_vars

\* A known user with no PendingState has written to the bot and has been
\* told to wait, while another user's cycle is open.
C32_Witness ==
    /\ handled.op = "message"
    /\ handled.event.user = "U2"
    /\ handled.said = <<WaitInstruction>>
    /\ get_by_user(states, "U1") # {}
    /\ reports # {}

\* The users of a sequence
Range(seq) == {seq[i] : i \in 1..Len(seq)}

\* C33: send_pending_standups acts only on active users: a user with
\* active=False (paused or unsubscribed) receives no DM from dispatch and
\* dispatch never creates or modifies that user's PendingState.
C33_InactiveUsersUntouched ==
    [][last'.op = "dispatch"
          => \A u \in Users :
                ~active[u] => /\ outbox'[u] \in {<<>>, outbox[u]}
                              /\ get_by_user(states', u)
                                     = get_by_user(states, u)]_vars

\* C33, amended: send_pending_standups acts only on the users who are active
\* when the pass reads the list of active users (line 47): the list holds no
\* user with active=False, and a user who is not in the list receives no DM
\* from the pass and has no PendingState created or modified by it. (A user
\* who pauses after that read and before their turn is still served.)
C33_UsersInactiveAtTheReadUntouched ==
    [][last'.op = "dispatch"
          => LET begins == batch.pc = "idle" /\ batch'.pc = "running"
                 users == IF begins THEN batch'.users ELSE batch.users
             IN  /\ begins => \A u \in Range(users) : active[u]
                 /\ \A u \in Users \ Range(users) :
                       /\ outbox'[u] = <<>>
                       /\ get_by_user(states', u) = get_by_user(states, u)
       ]_vars

\* U2 has paused; a pass that began after that has served U1 and is at its
\* end, with nothing sent to U2 and nothing written for U2.
C33_Witness ==
    /\ ~active["U2"]
    /\ batch.pc = "running"
    /\ batch.users = <<"U1">>
    /\ batch.position = 2
    /\ outbox["U1"] # <<>>
    /\ outbox["U2"] = <<>>
    /\ \E s \in batch.states : s.user_id = "U1"
    /\ get_by_user(states, "U2") = {}

\* C34: after a user pauses standups (pause button) or unsubscribes,
\* issuing '/standup subscribe' resumes them: the user is active again after
\* the command.
C34_SubscribeResumes ==
    [][(last'.op = "subscribe" /\ ~active[last'.user])
          => active'[last'.user]]_vars

\* C35: whenever dispatch has sent a user the opening DM in a tick, a
\* handle_user_answer call from that user arriving at any later moment, also
\* before the commit at the end of the pass, finds a PendingState and is
\* recorded as the answer to question 0: the first answer after the DM is
\* never rejected as 'No pending standup'.
C35_AnswerAfterDMIsAccepted ==
    [][(/\ last'.op = "answer"
        /\ last'.user \in Users
        /\ outbox[last'.user] = <<build_standup_start_message>>
        /\ \A r \in reports : r.user_id # last'.user)
          => /\ last'.result = NextQuestion(1)
             /\ \E r \in reports' : /\ r.user_id = last'.user
                                    /\ r.feeling # NULL]_vars

\* C36: dispatch never discards the progress of an open cycle: if a user's
\* PendingState is at index i >= 1 (at least one question answered), a run
\* of send_pending_standups leaves the index as it is, so that no recorded
\* answer is asked for again and overwritten.
C36_DispatchKeepsProgress ==
    [][last'.op = "dispatch"
          => \A s \in states :
                s.current_question_index >= 1
                   => \E t \in get_by_user(states', s.user_id) :
                         t.current_question_index = s.current_question_index
       ]_vars

\* C37: terminal outcomes are exclusive: in every reachable state, under any
\* sequence or interleaving of dispatch, handle_user_answer and
\* handle_skip_today, no report has both completed_at set and skipped=True.
C37_CompletedXorSkipped ==
    \A r \in reports : ~(r.completed_at # NoTime /\ r.skipped)

\* C38: each report is published to the shared channel at most once: over
\* any sequence of dispatch ticks and inbound messages, the message handler
\* calls post_report_to_channel for a given report id at most one time.
C38_PublishedAtMostOnce == published.repeated = {}

\* C39: in every state reachable from an empty store by sequential
\* dispatch, handle_user_answer and handle_skip_today operations, a report
\* with completed_at set has all four answer fields (feeling, yesterday,
\* today, blockers) populated.
C39_CompletedReportIsFull ==
    \A r \in reports :
        r.completed_at # NoTime
           => \A i \in 1..Len(QUESTIONS) : r[QUESTIONS[i]] # NULL

\* A report that was skipped with no answer in it has been completed by the
\* four answers of a catch-up cycle.
C39_Witness ==
    \E r \in reports : /\ r.completed_at # NoTime
                       /\ r.skipped
                       /\ r.report_date < calendar_day
                       /\ last.op = "answer"
                       /\ last.result.action = "complete_report"

=============================================================================
